---------------------------- MODULE Spec2Model ----------------------------
(***************************************************************************)
(* A model of om_column_lineage_demo.py: the lineage response normalizer   *)
(* (_iter_edges), the edge identity extractor (_edge_from_to_ids), the     *)
(* column mapping extractor (_extract_columns_lineage_pairs), the verifier *)
(* (verify_lineage) and the script's entry point (main).                   *)
(*                                                                         *)
(* Python values are records whose field set tells the type:               *)
(*   None          [none |-> TRUE]                                         *)
(*   a str         [str  |-> "..."]                                        *)
(*   an int        [int  |-> n]                                            *)
(*   a list        [list |-> <<...>>]                                      *)
(*   a dict        [form |-> "dict", key |-> value, ...]                   *)
(*   an object     [form |-> "obj",  attribute |-> value, ...]             *)
(* A key or attribute that is missing holds Absent.  A raised exception is *)
(* the value Raise(<exception type>).                                      *)
(***************************************************************************)
EXTENDS Integers, Sequences, FiniteSets, TLC

VARIABLES
    \* main()
    pc,              \* the position of main: the next statement it runs
    token_file,      \* the token file as main finds it
    token,           \* the token read_pat_token returned
    calls,           \* the catalog calls made so far, in order
    entities,        \* what the catalog calls of main returned
    exit_code,       \* main's return value, -1 while it runs
    \* verify_lineage()
    source_table, target_table, expected_pairs,
    lineage_graph, matching_edge, actual_pairs, outcome,
    \* _iter_edges() applied to one response
    iter_graph, iter_result,
    \* _iter_edges() applied to a unified and to a split response
    E1, E2, unified_graph, split_graph, unified_result, split_result,
    \* _edge_from_to_ids() applied to a flat and to a nested edge
    flat_edge, nested_edge, flat_ids, nested_ids,
    \* _extract_columns_lineage_pairs() applied to one edge
    cols_edge, cols_result

mainVars   == <<pc, token_file, token, calls, entities, exit_code>>
verifyVars == <<source_table, target_table, expected_pairs,
                lineage_graph, matching_edge, actual_pairs, outcome>>
iterVars   == <<iter_graph, iter_result>>
normVars   == <<E1, E2, unified_graph, split_graph, unified_result, split_result>>
idsVars    == <<flat_edge, nested_edge, flat_ids, nested_ids>>
colsVars   == <<cols_edge, cols_result>>
vars       == <<mainVars, verifyVars, iterVars, normVars, idsVars, colsVars>>

-----------------------------------------------------------------------------
(* Bounds of the model *)

\* the longest edge list of a response
MaxEdges == 2
\* the most entries of a columnsLineage list
MaxMappings == 2
\* the most source columns of one entry (fan-in)
MaxFan == 2

-----------------------------------------------------------------------------
(* Python values *)

PyNone    == [none |-> TRUE]
Absent    == [absent |-> TRUE]
NotRun    == [notrun |-> TRUE]
PyStr(s)  == [str |-> s]
PyInt(n)  == [int |-> n]
PyBool(b) == [bool |-> b]
PyList(q) == [list |-> q]
Raise(e)  == [raise |-> e]
EmptyList == PyList(<<>>)
EmptyDict == [form |-> "dict"]

IsStr(v)   == "str" \in DOMAIN v
IsInt(v)   == "int" \in DOMAIN v
IsBool(v)  == "bool" \in DOMAIN v
IsList(v)  == "list" \in DOMAIN v
IsRaise(v) == "raise" \in DOMAIN v
IsDict(v)  == "form" \in DOMAIN v /\ v.form = "dict"
IsObj(v)   == "form" \in DOMAIN v /\ v.form = "obj"

\* `key in d` for a dict, hasattr(o, key) for an object
HasKey(v, f) == f \in DOMAIN v /\ v[f] # Absent

\* d.get(key) of a dict
DictGet(d, f) == IF HasKey(d, f) THEN d[f] ELSE PyNone

\* getattr(v, name, default): only objects of the response carry the
\* attributes the script asks for; None, str, int, list and dict have none
GetAttr(v, f, default) == IF IsObj(v) /\ HasKey(v, f) THEN v[f] ELSE default

\* bool(v)
Truthy(v) ==
    CASE v = PyNone -> FALSE
      [] IsStr(v)   -> v.str # ""
      [] IsInt(v)   -> v.int # 0
      [] IsBool(v)  -> v.bool
      [] IsList(v)  -> Len(v.list) > 0
      [] IsDict(v)  -> \E f \in DOMAIN v \ {"form"} : v[f] # Absent
      [] IsObj(v)   -> TRUE

\* a or b
PyOr(a, b) == IF Truthy(a) THEN a ELSE b

Digits == <<"0", "1", "2", "3", "4", "5", "6", "7", "8", "9">>

\* str(v).  A dict or an object prints as its repr, which is no identifier
\* and no column name of the model.
PyToStr(v) ==
    CASE v = PyNone -> "None"
      [] IsStr(v)   -> v.str
      [] IsInt(v)   -> Digits[v.int + 1]
      [] IsList(v)  -> "[...]"
      [] IsDict(v)  -> "{...}"
      [] IsObj(v)   -> "<object>"

\* a + b: two lists concatenate, anything else with a list is a TypeError
PyAdd(a, b) ==
    CASE IsRaise(a)             -> a
      [] IsRaise(b)             -> b
      [] IsList(a) /\ IsList(b) -> PyList(a.list \o b.list)
      [] OTHER                  -> Raise("TypeError")

\* list(v) of a list or an int (an int is not iterable)
ToList(v) ==
    CASE IsList(v) -> v
      [] IsInt(v)  -> Raise("TypeError")

\* the lists of length at most n over S
SeqUpTo(S, n) == UNION {[1..k -> S] : k \in 0..n}

-----------------------------------------------------------------------------
(* as_plain_str and _column_fqn *)

\* value.model_dump() of an object that has one: the attribute holds what the
\* call returns, or Raise(..) when the call raises
ModelDump(value) == value["model_dump"]

as_plain_str(value) ==
    IF value = PyNone THEN ""
    ELSE IF IsObj(value) /\ HasKey(value, "root")
    THEN IF value["root"] = PyNone THEN "" ELSE PyToStr(value["root"])
    ELSE IF IsObj(value) /\ HasKey(value, "model_dump")
            /\ IsDict(ModelDump(value)) /\ HasKey(ModelDump(value), "root")
    THEN PyToStr(ModelDump(value)["root"])
    ELSE PyToStr(value)

_column_fqn(table_fqn, column_name) == table_fqn \o "." \o column_name

-----------------------------------------------------------------------------
(* _iter_edges *)

\* DictSplitEdges with the two lists in the wrong order
DictSplitEdgesDownstreamFirst(g) ==
    PyAdd(PyOr(DictGet(g, "downstreamEdges"), EmptyList),
          PyOr(DictGet(g, "upstreamEdges"), EmptyList))

\* the dictionary branch with no usable "edges": upstream, then downstream
DictSplitEdges(g) ==
    PyAdd(PyOr(DictGet(g, "upstreamEdges"), EmptyList),
          PyOr(DictGet(g, "downstreamEdges"), EmptyList))

\* the object branch with no "edges": list(upstream) + list(downstream)
ObjSplitEdges(g) ==
    PyAdd(ToList(PyOr(GetAttr(g, "upstreamEdges", PyNone), EmptyList)),
          ToList(PyOr(GetAttr(g, "downstreamEdges", PyNone), EmptyList)))

\* What _iter_edges returns: a list, a value of another type handed back as
\* it was found, or the exception it raises.
_iter_edges(g) ==
    IF g = PyNone THEN EmptyList
    ELSE IF IsDict(g)
    THEN IF HasKey(g, "edges") /\ DictGet(g, "edges") # PyNone
         THEN PyOr(DictGet(g, "edges"), EmptyList)
         ELSE DictSplitEdges(g)
    ELSE IF GetAttr(g, "edges", PyNone) # PyNone
         THEN GetAttr(g, "edges", PyNone)
         ELSE ObjSplitEdges(g)

-----------------------------------------------------------------------------
(* _edge_from_to_ids *)

\* DictRefId without the unwrapping of a nested reference
DictRefIdNoUnwrap(raw) == raw

\* frm_raw.get("id") if isinstance(frm_raw, dict) else frm_raw
DictRefId(raw) == IF IsDict(raw) THEN DictGet(raw, "id") ELSE raw

\* getattr(frm_raw, "id", frm_raw)
ObjRefId(raw) == GetAttr(raw, "id", raw)

_edge_from_to_ids(edge) ==
    IF IsDict(edge)
    THEN <<PyToStr(DictRefId(DictGet(edge, "fromEntity"))),
           PyToStr(DictRefId(DictGet(edge, "toEntity")))>>
    ELSE <<PyToStr(ObjRefId(GetAttr(edge, "fromEntity", PyNone))),
           PyToStr(ObjRefId(GetAttr(edge, "toEntity", PyNone)))>>

-----------------------------------------------------------------------------
(* _extract_columns_lineage_pairs *)

\* a Python set of (from, to) tuples
PySet(S) == [set |-> S]

\* FanInPairs that stops after the first source column
FanInPairsFirstOnly(from_cols, to_col) ==
    {<<PyToStr(from_cols[j]), PyToStr(to_col)>> :
        j \in {i \in 1..Len(from_cols) :
                  i = 1 /\ Truthy(from_cols[i]) /\ Truthy(to_col)}}

\* the inner loop: one pair per source column, when both sides are truthy
FanInPairs(from_cols, to_col) ==
    {<<PyToStr(from_cols[j]), PyToStr(to_col)>> :
        j \in {i \in 1..Len(from_cols) : Truthy(from_cols[i]) /\ Truthy(to_col)}}

\* the pairs one columnsLineage entry of a dictionary edge adds, or the
\* exception it raises
DictItemPairs(item) ==
    IF ~IsDict(item) THEN Raise("AttributeError")
    ELSE LET to_col    == DictGet(item, "toColumn")
             from_cols == PyOr(DictGet(item, "fromColumns"), EmptyList)
         IN  IF IsList(from_cols) THEN PySet(FanInPairs(from_cols.list, to_col))
             ELSE Raise("TypeError")

\* the pairs one columnsLineage entry of an object edge adds
ObjItemPairs(item) ==
    LET to_col    == GetAttr(item, "toColumn", PyNone)
        from_cols == PyOr(GetAttr(item, "fromColumns", PyNone), EmptyList)
    IN  IF IsList(from_cols) THEN PySet(FanInPairs(from_cols.list, to_col))
        ELSE Raise("TypeError")

\* the outer loop over a list of per-entry results: the first exception
\* ends it, otherwise every entry's pairs are added
CollectPairs(results) ==
    IF \E i \in 1..Len(results) : IsRaise(results[i])
    THEN results[CHOOSE i \in 1..Len(results) :
                    /\ IsRaise(results[i])
                    /\ \A j \in 1..(i - 1) : ~IsRaise(results[j])]
    ELSE PySet(UNION {results[i].set : i \in 1..Len(results)})

DictEdgePairs(edge) ==
    LET lineage_details == PyOr(DictGet(edge, "lineageDetails"), EmptyDict)
    IN  IF ~IsDict(lineage_details) THEN Raise("AttributeError")
        ELSE LET columns_lineage ==
                     PyOr(DictGet(lineage_details, "columnsLineage"), EmptyList)
             IN  IF ~IsList(columns_lineage) THEN Raise("TypeError")
                 ELSE CollectPairs([i \in 1..Len(columns_lineage.list) |->
                                       DictItemPairs(columns_lineage.list[i])])

ObjEdgePairs(edge) ==
    LET lineage_details == GetAttr(edge, "lineageDetails", PyNone)
    IN  IF ~Truthy(lineage_details) THEN PySet({})
        ELSE LET columns_lineage ==
                     PyOr(GetAttr(lineage_details, "columnsLineage", PyNone), EmptyList)
             IN  IF ~IsList(columns_lineage) THEN Raise("TypeError")
                 ELSE CollectPairs([i \in 1..Len(columns_lineage.list) |->
                                       ObjItemPairs(columns_lineage.list[i])])

_extract_columns_lineage_pairs(edge) ==
    IF IsDict(edge) THEN DictEdgePairs(edge) ELSE ObjEdgePairs(edge)

-----------------------------------------------------------------------------
(* CONFIG *)

SERVICE_NAME == "demo_mysql_lineage_service"
DB_NAME      == "demo_db"
SCHEMA_NAME  == "public"
SOURCE_TABLE == "orders_raw"
TARGET_TABLE == "orders_curated"

-----------------------------------------------------------------------------
(* The values a run that does not use a group of variables leaves in them *)

MainIdle ==
    /\ pc = "idle" /\ token_file = Absent /\ token = "" /\ calls = <<>>
    /\ entities = <<>> /\ exit_code = -1

VerifyIdle ==
    /\ source_table = PyNone /\ target_table = PyNone /\ expected_pairs = {}
    /\ lineage_graph = NotRun /\ matching_edge = NotRun
    /\ actual_pairs = NotRun /\ outcome = "idle"

IterIdle == iter_graph = PyNone /\ iter_result = NotRun

NormIdle ==
    /\ E1 = <<>> /\ E2 = <<>> /\ unified_graph = PyNone /\ split_graph = PyNone
    /\ unified_result = NotRun /\ split_result = NotRun

IdsIdle ==
    /\ flat_edge = PyNone /\ nested_edge = PyNone
    /\ flat_ids = NotRun /\ nested_ids = NotRun

ColsIdle == cols_edge = PyNone /\ cols_result = NotRun

-----------------------------------------------------------------------------
(* Responses and edges the runs draw from *)

Forms == {"dict", "obj"}

Edge(form, from, to, details) ==
    [form |-> form, fromEntity |-> from, toEntity |-> to, lineageDetails |-> details]

Graph(form, edges, upstream, downstream) ==
    [form |-> form, edges |-> edges,
     upstreamEdges |-> upstream, downstreamEdges |-> downstream]

\* a nested entity reference, {"id": ...} or an object with an id
Ref(form, id) == [form |-> form, id |-> id]

\* the edges the normalizer is run on: it never looks into an edge
IterEdgeSet ==
    {Edge("dict", PyStr("s1"), PyStr("t1"), Absent),
     Edge("obj", Ref("obj", PyStr("t1")), Ref("obj", PyStr("s1")), PyNone)}

EdgeLists == SeqUpTo(IterEdgeSet, MaxEdges)

\* what a field of a response may hold: nothing, null, a list of edges, or
\* a value of an unexpected type
FieldValues ==
    {Absent, PyNone, PyInt(0), PyInt(5)} \cup {PyList(q) : q \in EdgeLists}

IterGraphs ==
    {PyNone} \cup
    {Graph(f, e, u, d) : f \in Forms, e \in FieldValues,
                         u \in FieldValues, d \in FieldValues}

-----------------------------------------------------------------------------
(* _iter_edges applied to one response *)

InitIter ==
    /\ iter_graph \in IterGraphs
    /\ iter_result = NotRun
    /\ MainIdle /\ VerifyIdle /\ NormIdle /\ IdsIdle /\ ColsIdle

IterEdgesCall ==
    /\ iter_result = NotRun
    /\ iter_result' = _iter_edges(iter_graph)
    /\ UNCHANGED <<iter_graph, mainVars, verifyVars, normVars, idsVars, colsVars>>

NextIter == IterEdgesCall

SpecIter == InitIter /\ [][NextIter]_vars

-----------------------------------------------------------------------------
(* _iter_edges applied to {edges: E1 + E2} and to                         *)
(* {upstreamEdges: E1, downstreamEdges: E2}                               *)

InitNorm ==
    /\ E1 \in EdgeLists
    /\ E2 \in EdgeLists
    /\ \E f \in Forms, e \in {Absent, PyNone} :
          /\ unified_graph = Graph(f, PyList(E1 \o E2), Absent, Absent)
          /\ split_graph = Graph(f, e, PyList(E1), PyList(E2))
    /\ unified_result = NotRun
    /\ split_result = NotRun
    /\ MainIdle /\ VerifyIdle /\ IterIdle /\ IdsIdle /\ ColsIdle

NormalizeUnified ==
    /\ unified_result = NotRun
    /\ unified_result' = _iter_edges(unified_graph)
    /\ UNCHANGED <<E1, E2, unified_graph, split_graph, split_result,
                   mainVars, verifyVars, iterVars, idsVars, colsVars>>

NormalizeSplit ==
    /\ split_result = NotRun
    /\ split_result' = _iter_edges(split_graph)
    /\ UNCHANGED <<E1, E2, unified_graph, split_graph, unified_result,
                   mainVars, verifyVars, iterVars, idsVars, colsVars>>

NextNorm == NormalizeUnified \/ NormalizeSplit

SpecNorm == InitNorm /\ [][NextNorm]_vars

-----------------------------------------------------------------------------
(* _edge_from_to_ids applied to a flat edge and to its nested equivalent  *)

\* the (frm, to) tuple of strings the extractor returns
PyTuple(t) == [tuple |-> t]

IdValues == {PyStr("s1"), PyStr("t1"), PyStr(""), PyNone, PyInt(5)}

InitIds ==
    /\ \E f \in Forms, s \in IdValues, t \in IdValues :
          /\ flat_edge = Edge(f, s, t, Absent)
          /\ nested_edge = Edge(f, Ref(f, s), Ref(f, t), Absent)
    /\ flat_ids = NotRun
    /\ nested_ids = NotRun
    /\ MainIdle /\ VerifyIdle /\ IterIdle /\ NormIdle /\ ColsIdle

ExtractFlat ==
    /\ flat_ids = NotRun
    /\ flat_ids' = PyTuple(_edge_from_to_ids(flat_edge))
    /\ UNCHANGED <<flat_edge, nested_edge, nested_ids,
                   mainVars, verifyVars, iterVars, normVars, colsVars>>

ExtractNested ==
    /\ nested_ids = NotRun
    /\ nested_ids' = PyTuple(_edge_from_to_ids(nested_edge))
    /\ UNCHANGED <<flat_edge, nested_edge, flat_ids,
                   mainVars, verifyVars, iterVars, normVars, colsVars>>

NextIds == ExtractFlat \/ ExtractNested

SpecIds == InitIds /\ [][NextIds]_vars

-----------------------------------------------------------------------------
(* _extract_columns_lineage_pairs applied to one edge *)

\* one entry of columnsLineage
ColumnLineage(form, from_cols, to_col) ==
    [form |-> form, fromColumns |-> from_cols, toColumn |-> to_col]

LineageDetails(form, columns_lineage) ==
    [form |-> form, columnsLineage |-> columns_lineage]

\* an element of fromColumns: a column name, or null
FromValues == {PyStr("a.x"), PyStr("a.y"), PyNone}

\* toColumn: missing, empty, or a column name
ToValues == {Absent, PyStr(""), PyStr("b.x")}

FromColumnsValues ==
    {Absent} \cup {PyList(q) : q \in SeqUpTo(FromValues, MaxFan)}

ColumnLineages(form) ==
    {ColumnLineage(form, fc, tc) : fc \in FromColumnsValues, tc \in ToValues}

\* well-shaped edges, of one form throughout: lineageDetails missing, null,
\* without columnsLineage, or with a list of entries
InitCols ==
    /\ \E f \in Forms :
          \/ cols_edge \in {Edge(f, PyStr("s1"), PyStr("t1"), d) :
                                d \in {Absent, PyNone, LineageDetails(f, Absent)}}
          \/ \E n \in 0..MaxMappings : \E q \in [1..n -> ColumnLineages(f)] :
                cols_edge = Edge(f, PyStr("s1"), PyStr("t1"),
                                 LineageDetails(f, PyList(q)))
    /\ cols_result = NotRun
    /\ MainIdle /\ VerifyIdle /\ IterIdle /\ NormIdle /\ IdsIdle

ExtractPairsCall ==
    /\ cols_result = NotRun
    /\ cols_result' = _extract_columns_lineage_pairs(cols_edge)
    /\ UNCHANGED <<cols_edge, mainVars, verifyVars, iterVars, normVars, idsVars>>

NextCols == ExtractPairsCall

SpecCols == InitCols /\ [][NextCols]_vars

-----------------------------------------------------------------------------
(* verify_lineage *)

\* EdgeMatches with `or` in the place of `and`
EdgeMatchesEither(edge, source_id, target_id) ==
    \/ _edge_from_to_ids(edge)[1] = source_id
    \/ _edge_from_to_ids(edge)[2] = target_id

\* frm_id == source_id and to_id == target_id
EdgeMatches(edge, source_id, target_id) ==
    /\ _edge_from_to_ids(edge)[1] = source_id
    /\ _edge_from_to_ids(edge)[2] = target_id

\* the scan: the first edge that matches, None when none does
FirstMatch(edges, source_id, target_id) ==
    IF \E i \in 1..Len(edges) : EdgeMatches(edges[i], source_id, target_id)
    THEN edges[CHOOSE i \in 1..Len(edges) :
                  /\ EdgeMatches(edges[i], source_id, target_id)
                  /\ \A j \in 1..(i - 1) : ~EdgeMatches(edges[j], source_id, target_id)]
    ELSE PyNone

\* MissingPairs with the difference taken the wrong way round
MissingPairsSwapped(expected, actual) == actual \ expected

\* missing = expected_pairs - actual_pairs
MissingPairs(expected, actual) == expected \ actual

\* extra = actual_pairs - expected_pairs: printed, never a failure
ExtraPairs(expected, actual) == actual \ expected

\* the end of verify_lineage, once the pairs of the matched edge are known
CompareOutcome(expected, actual) ==
    IF MissingPairs(expected, actual) # {} THEN "lineage_incomplete" ELSE "pass"

\* verify_lineage from the fetched graph on: the matched edge, the pairs
\* extracted from it and how the call ends.  An exception that is not one of
\* the two AssertionErrors ends the call under its own type name.
VerifyResult(graph, source_id, target_id, expected) ==
    LET edges == _iter_edges(graph)
        ended(me, ap, o) == [matching_edge |-> me, actual_pairs |-> ap, outcome |-> o]
    IN  IF IsRaise(edges) THEN ended(NotRun, NotRun, edges.raise)
        ELSE IF ~IsList(edges) THEN ended(NotRun, NotRun, "TypeError")
        ELSE LET me == FirstMatch(edges.list, source_id, target_id)
             IN  IF me = PyNone THEN ended(me, NotRun, "edge_not_found")
                 ELSE LET actual == _extract_columns_lineage_pairs(me)
                      IN  IF IsRaise(actual) THEN ended(me, NotRun, actual.raise)
                          ELSE ended(me, actual, CompareOutcome(expected, actual.set))

\* a table handle: what verify_lineage reads of it
TableHandle(id, fqn) == [form |-> "obj", id |-> id, fullyQualifiedName |-> fqn]

Pair1 == <<"a.x", "b.x">>
Pair2 == <<"a.y", "b.y">>

Mapping1(f) == ColumnLineage(f, PyList(<<PyStr("a.x")>>), PyStr("b.x"))
Mapping2(f) == ColumnLineage(f, PyList(<<PyStr("a.y")>>), PyStr("b.y"))

\* edges that differ in how they name their entities, each carrying Pair1
IdentityEdges ==
    {Edge(f, from, to, LineageDetails(f, PyList(<<Mapping1(f)>>))) :
        f \in Forms,
        from \in {Absent, PyStr("s1"), Ref("dict", PyStr("s1")), Ref("obj", PyStr("s1"))},
        to \in {PyNone, PyStr("t1")}}

\* edges from s1 to t1 that differ in their lineage detail: none, both pairs,
\* a null entry, a detail that is a string
DetailsOf(f) ==
    {Absent,
     LineageDetails(f, PyList(<<Mapping1(f), Mapping2(f)>>)),
     LineageDetails(f, PyList(<<PyNone>>)),
     PyStr("x")}

DetailEdges ==
    UNION {{Edge(f, PyStr("s1"), PyStr("t1"), d) : d \in DetailsOf(f)} : f \in Forms}

\* the edge the other way round, and a null in the place of an edge
OtherEdges ==
    {Edge(f, PyStr("t1"), PyStr("s1"),
          LineageDetails(f, PyList(<<Mapping1(f), Mapping2(f)>>))) : f \in Forms}
    \cup {PyNone}

VerifyEdges == IdentityEdges \cup DetailEdges \cup OtherEdges

\* the responses that carry the edges q: unified, or split at any place
\* into upstream and downstream edges; with no edge at all also no response
\* and a field of an unexpected type
GraphsOf(f, q) ==
    {Graph(f, PyList(q), Absent, Absent)}
    \cup {Graph(f, Absent, PyList(SubSeq(q, 1, k)), PyList(SubSeq(q, k + 1, Len(q)))) :
            k \in 0..Len(q)}
    \cup (IF Len(q) = 0
          THEN {PyNone, Graph(f, PyInt(5), Absent, Absent),
                Graph(f, Absent, PyInt(5), Absent)}
          ELSE {})

InitVerify ==
    /\ source_table \in {TableHandle(id, PyStr("svc.db.public.orders_raw")) :
                           id \in {PyStr("s1"), PyStr("None")}}
    /\ target_table \in {TableHandle(id, [form |-> "obj", root |-> PyStr("svc.db.public.orders_curated")]) :
                           id \in {PyStr("t1")}}
    /\ expected_pairs \in {{}, {Pair1}, {Pair1, Pair2}}
    /\ lineage_graph = NotRun
    /\ matching_edge = NotRun
    /\ actual_pairs = NotRun
    /\ outcome = "ready"
    /\ MainIdle /\ IterIdle /\ NormIdle /\ IdsIdle /\ ColsIdle

\* get_lineage_by_name returns a graph and verify_lineage runs to its end
VerifyLineage ==
    /\ outcome = "ready"
    /\ \E f \in Forms, n \in 0..MaxEdges : \E q \in [1..n -> VerifyEdges] :
         \E g \in GraphsOf(f, q) :
           LET r == VerifyResult(g, PyToStr(source_table.id),
                                 PyToStr(target_table.id), expected_pairs)
           IN  /\ lineage_graph' = g
               /\ matching_edge' = r.matching_edge
               /\ actual_pairs' = r.actual_pairs
               /\ outcome' = r.outcome
    /\ UNCHANGED <<source_table, target_table, expected_pairs,
                   mainVars, iterVars, normVars, idsVars, colsVars>>

\* get_lineage_by_name raises: the exception leaves verify_lineage
GetLineageRaises ==
    /\ outcome = "ready"
    /\ outcome' = "fetch_error"
    /\ UNCHANGED <<source_table, target_table, expected_pairs, lineage_graph,
                   matching_edge, actual_pairs,
                   mainVars, iterVars, normVars, idsVars, colsVars>>

NextVerify == VerifyLineage \/ GetLineageRaises

SpecVerify == InitVerify /\ [][NextVerify]_vars

-----------------------------------------------------------------------------
(* main *)

\* what the token file may hold
TokenContents == {"", " \n", "tok", " tok\n"}

\* str.strip() on the contents above
Strip(text) ==
    CASE text = ""       -> ""
      [] text = " \n"    -> ""
      [] text = "tok"    -> "tok"
      [] text = " tok\n" -> "tok"

\* read_pat_token: the token, or the exception for a file that is missing
\* (FileNotFoundError) or empty once stripped (ValueError)
read_pat_token(file) ==
    IF file = Absent THEN Raise("FileNotFoundError")
    ELSE IF Strip(file.str) = "" THEN Raise("ValueError")
    ELSE PyStr(Strip(file.str))

\* HealthCheckPasses without the test of what health_check returned
HealthCheckPassesUntested(h) == ~IsRaise(h)

\* connect_openmetadata returns the client: health_check raised nothing
\* and returned a truthy value
HealthCheckPasses(h) == ~IsRaise(h) /\ Truthy(h)

\* the catalog calls of a complete run, in the order main makes them
CallOrder ==
    <<"health_check",
      "create_or_update(service)", "create_or_update(database)",
      "create_or_update(schema)", "create_or_update(source_table)",
      "create_or_update(target_table)", "add_lineage">>

\* the except clause of main: print the error, return 1
Fails ==
    /\ pc' = "done"
    /\ exit_code' = 1

\* an entity as create_or_update returns it: the catalog hands the fully
\* qualified name back as a plain string or wrapped in a root model
Entity(id, fqn, wrapped) ==
    [form |-> "obj", id |-> PyStr(id),
     fullyQualifiedName |-> IF wrapped THEN [form |-> "obj", root |-> PyStr(fqn)]
                            ELSE PyStr(fqn)]

\* what a create_or_update call may give: an exception, nothing, an entity
CreateResults(id, fqn) ==
    {Raise("Exception"), PyNone} \cup {Entity(id, fqn, w) : w \in BOOLEAN}

\* the statements that follow a create_or_update read .fullyQualifiedName
\* of what it returned
Usable(r) == ~IsRaise(r) /\ r # PyNone

\* one create_or_update step of main: the call is made, and what it returns
\* is kept, or the exception ends the run
CreateStep(here, fqn, next) ==
    /\ pc = here
    /\ calls' = Append(calls, CallOrder[Len(calls) + 1])
    /\ \E r \in CreateResults(here, fqn) :
          /\ entities' = Append(entities, r)
          /\ IF Usable(r)
             THEN pc' = next /\ exit_code' = exit_code
             ELSE Fails
    /\ UNCHANGED <<token_file, token, verifyVars, iterVars, normVars, idsVars, colsVars>>

\* the fully qualified name of the entity the i-th call returned
FqnOf(i) == as_plain_str(entities[i].fullyQualifiedName)

InitMain ==
    /\ pc = "read_token"
    /\ token_file \in {Absent} \cup {PyStr(c) : c \in TokenContents}
    /\ token = ""
    /\ calls = <<>>
    /\ entities = <<>>
    /\ exit_code = -1
    /\ VerifyIdle /\ IterIdle /\ NormIdle /\ IdsIdle /\ ColsIdle

ReadPatToken ==
    /\ pc = "read_token"
    /\ IF IsRaise(read_pat_token(token_file))
       THEN Fails /\ token' = token
       ELSE /\ token' = read_pat_token(token_file).str
            /\ pc' = "connect"
            /\ exit_code' = exit_code
    /\ UNCHANGED <<token_file, calls, entities,
                   verifyVars, iterVars, normVars, idsVars, colsVars>>

\* building the connection or the client raises: no call was made
ClientConstructionRaises ==
    /\ pc = "connect"
    /\ Fails
    /\ UNCHANGED <<token_file, token, calls, entities,
                   verifyVars, iterVars, normVars, idsVars, colsVars>>

ConnectOpenmetadata ==
    /\ pc = "connect"
    /\ calls' = Append(calls, CallOrder[Len(calls) + 1])
    /\ \E h \in {PyBool(TRUE), PyBool(FALSE), Raise("Exception")} :
          /\ entities' = Append(entities, h)
          /\ IF HealthCheckPasses(h)
             THEN pc' = "service" /\ exit_code' = exit_code
             ELSE Fails
    /\ UNCHANGED <<token_file, token, verifyVars, iterVars, normVars, idsVars, colsVars>>

CreateService == CreateStep("service", SERVICE_NAME, "database")

CreateDatabase == CreateStep("database", FqnOf(2) \o "." \o DB_NAME, "schema")

CreateSchema == CreateStep("schema", FqnOf(3) \o "." \o SCHEMA_NAME, "source_table")

CreateSourceTable ==
    CreateStep("source_table", FqnOf(4) \o "." \o SOURCE_TABLE, "target_table")

CreateTargetTable ==
    CreateStep("target_table", FqnOf(4) \o "." \o TARGET_TABLE, "add_lineage")

\* the four column mappings main submits
ColumnLineageOfMain(src_fqn, tgt_fqn) ==
    <<ColumnLineage("obj", PyList(<<PyStr(_column_fqn(src_fqn, "order_id"))>>),
                    PyStr(_column_fqn(tgt_fqn, "order_id"))),
      ColumnLineage("obj", PyList(<<PyStr(_column_fqn(src_fqn, "customer_id"))>>),
                    PyStr(_column_fqn(tgt_fqn, "customer_id"))),
      ColumnLineage("obj", PyList(<<PyStr(_column_fqn(src_fqn, "amount"))>>),
                    PyStr(_column_fqn(tgt_fqn, "amount_usd"))),
      ColumnLineage("obj", PyList(<<PyStr(_column_fqn(src_fqn, "created_at"))>>),
                    PyStr(_column_fqn(tgt_fqn, "order_ts")))>>

\* the AddLineageRequest main builds from the two tables
LineageRequest ==
    Edge("obj", Ref("obj", entities[5].id), Ref("obj", entities[6].id),
         LineageDetails("obj", PyList(ColumnLineageOfMain(FqnOf(5), FqnOf(6)))))

\* add_lineage is called; main returns 0 when it returns, whatever it
\* returns, and 1 when it raises
AddLineage ==
    /\ pc = "add_lineage"
    /\ calls' = Append(calls, CallOrder[Len(calls) + 1])
    /\ \E r \in {Raise("Exception"), PyNone, LineageRequest} :
          /\ entities' = Append(entities, r)
          /\ pc' = "done"
          /\ exit_code' = IF IsRaise(r) THEN 1 ELSE 0
    /\ UNCHANGED <<token_file, token, verifyVars, iterVars, normVars, idsVars, colsVars>>

Next ==
    \/ ReadPatToken
    \/ ClientConstructionRaises
    \/ ConnectOpenmetadata
    \/ CreateService
    \/ CreateDatabase
    \/ CreateSchema
    \/ CreateSourceTable
    \/ CreateTargetTable
    \/ AddLineage

Spec == InitMain /\ [][Next]_vars

-----------------------------------------------------------------------------
(* Properties of _iter_edges *)

\* C4: _iter_edges never fails, whatever the fields edges, upstreamEdges and
\* downstreamEdges of the response hold: it raises no exception.
C4_IterEdgesNeverRaises ==
    iter_result # NotRun => ~IsRaise(iter_result)

\* C6: a response {edges: E1 + E2} and a response {upstreamEdges: E1,
\* downstreamEdges: E2} whose edges field is absent or null normalize to the
\* same edge list, E1 followed by E2, in dictionary and in object form.
C6_NormalizationEquivalence ==
    (unified_result # NotRun /\ split_result # NotRun) =>
        /\ unified_result = split_result
        /\ split_result = PyList(E1 \o E2)

\* both shapes normalized, with upstream and downstream edges that differ, so
\* that the order shows
C6_Witness ==
    /\ unified_result # NotRun /\ split_result # NotRun
    /\ Len(E1) > 0 /\ Len(E2) > 0 /\ E1 \o E2 # E2 \o E1
    /\ IsDict(split_graph)
    /\ split_graph.edges = PyNone

-----------------------------------------------------------------------------
(* Properties of _edge_from_to_ids *)

\* C7: an edge carrying flat identifiers (fromEntity = s, toEntity = t) and
\* its nested equivalent (fromEntity = {id: s}, toEntity = {id: t}) of the
\* same form yield the same (source-id, target-id) pair.
C7_IdentitySymmetry ==
    (flat_ids # NotRun /\ nested_ids # NotRun) => flat_ids = nested_ids

\* both extractions done on a dictionary edge from s1 to t1
C7_Witness ==
    /\ flat_ids = PyTuple(<<"s1", "t1">>)
    /\ nested_ids # NotRun
    /\ IsDict(nested_edge)
    /\ nested_edge.fromEntity = Ref("dict", PyStr("s1"))

-----------------------------------------------------------------------------
(* Properties of _extract_columns_lineage_pairs *)

\* a column that is there: not missing, not null, not the empty string
Present(v) == v \notin {Absent, PyNone, PyStr("")}

\* the entries of an edge's lineageDetails.columnsLineage
EntriesOf(edge) ==
    IF edge.lineageDetails \in {Absent, PyNone} THEN <<>>
    ELSE IF edge.lineageDetails.columnsLineage \in {Absent, PyNone} THEN <<>>
    ELSE edge.lineageDetails.columnsLineage.list

\* the source columns of an entry
SourcesOf(m) ==
    IF m.fromColumns \in {Absent, PyNone} THEN {}
    ELSE {m.fromColumns.list[i] : i \in 1..Len(m.fromColumns.list)}

\* { (f, t) : m an entry, t = m.toColumn, f in m.fromColumns, both present }
MappedPairs(edge) ==
    UNION {{<<f.str, EntriesOf(edge)[i].toColumn.str>> :
              f \in {x \in SourcesOf(EntriesOf(edge)[i]) :
                        Present(x) /\ Present(EntriesOf(edge)[i].toColumn)}} :
           i \in 1..Len(EntriesOf(edge))}

\* C8: for every well-shaped edge the extractor returns exactly the pairs
\* (f, t) with t an entry's toColumn and f one of that entry's fromColumns,
\* both present: fan-in lists are expanded, entries lacking a source or the
\* target add nothing, an edge without lineage detail yields the empty set.
C8_ExtractedPairsExact ==
    cols_result # NotRun => cols_result = PySet(MappedPairs(cols_edge))

\* one entry with two source columns and one target column gave two pairs
C8_Witness ==
    /\ cols_result # NotRun
    /\ Len(EntriesOf(cols_edge)) = 1
    /\ EntriesOf(cols_edge)[1].fromColumns = PyList(<<PyStr("a.x"), PyStr("a.y")>>)
    /\ cols_result = PySet({<<"a.x", "b.x">>, <<"a.y", "b.x">>})

-----------------------------------------------------------------------------
(* Properties of verify_lineage *)

\* verify_lineage ran to its end on a fetched graph
Verified == outcome \notin {"idle", "ready", "fetch_error"}

\* the scan matched an edge and its column pairs were extracted
PairsExtracted ==
    /\ Verified
    /\ matching_edge \notin {NotRun, PyNone}
    /\ actual_pairs # NotRun

\* C1: when an edge matched and its pairs (actual) were extracted,
\* verify_lineage fails with 'lineage incomplete' exactly when
\* expected - actual is not empty and passes otherwise; pairs in
\* actual - expected never change the outcome.
C1_IncompleteIffMissing ==
    PairsExtracted =>
        /\ outcome \in {"lineage_incomplete", "pass"}
        /\ outcome = "lineage_incomplete" <=> (expected_pairs \ actual_pairs.set) # {}
        /\ expected_pairs \subseteq actual_pairs.set => outcome = "pass"

\* a pass with the actual pairs a strict superset of the expected ones
C1_Witness ==
    /\ PairsExtracted
    /\ outcome = "pass"
    /\ expected_pairs = {Pair1}
    /\ actual_pairs.set = {Pair1, Pair2}

\* the edges of the fetched graph, when it normalizes to a list
NormalizedEdges == _iter_edges(lineage_graph).list

\* no edge of the graph names the requested source and target
NoEdgeMatches ==
    \A i \in 1..Len(NormalizedEdges) :
        _edge_from_to_ids(NormalizedEdges[i])
            # <<PyToStr(source_table.id), PyToStr(target_table.id)>>

\* C3: for a graph (null, empty, or with edges) none of whose edges has the
\* requested (source-id, target-id), verify_lineage fails with 'edge not
\* found', whatever the edges' column mappings and the expected pairs are.
C3_NoMatchIsEdgeNotFound ==
    (Verified /\ IsList(_iter_edges(lineage_graph)) /\ NoEdgeMatches)
        => outcome = "edge_not_found"

\* 'edge not found' on a graph of two edges that carry column mappings,
\* one of them to the requested target, with nothing expected
C3_Witness ==
    /\ Verified
    /\ IsList(_iter_edges(lineage_graph))
    /\ Len(NormalizedEdges) = 2
    /\ NoEdgeMatches
    /\ \E i \in 1..2 : _edge_from_to_ids(NormalizedEdges[i])[2] = PyToStr(target_table.id)
    /\ \A i \in 1..2 : NormalizedEdges[i] # PyNone
                       /\ NormalizedEdges[i].lineageDetails # Absent
    /\ expected_pairs = {}
    /\ outcome = "edge_not_found"

\* C5: once the graph is fetched (and normalized to a list of edges),
\* verify_lineage ends in one of three ways, pass, 'edge not found' or
\* 'lineage incomplete', whatever the shape of the edges: the helpers raise
\* nothing on a malformed edge.
C5_ThreeOutcomes ==
    (Verified /\ IsList(_iter_edges(lineage_graph)))
        => outcome \in {"pass", "edge_not_found", "lineage_incomplete"}

\* an entity reference that carries an identifier: a value that is there
\* and, when nested, has an id
CarriesId(ref) ==
    /\ ref \notin {Absent, PyNone}
    /\ (IsDict(ref) \/ IsObj(ref)) => (HasKey(ref, "id") /\ ref.id # PyNone)

\* C10: the edge verify_lineage selects carries both identifiers: an edge
\* whose fromEntity or toEntity is absent or null is never the matching edge.
C10_MatchCarriesBothIds ==
    (Verified /\ matching_edge \notin {NotRun, PyNone})
        => /\ CarriesId(matching_edge.fromEntity)
           /\ CarriesId(matching_edge.toEntity)

-----------------------------------------------------------------------------
(* Properties of main *)

\* C2: a run of main that returns 0 has read the lineage back and verified
\* it: get_lineage_by_name was called after add_lineage.
C2_ExitZeroAfterVerification ==
    exit_code = 0 =>
        \E i, j \in 1..Len(calls) :
            i < j /\ calls[i] = "add_lineage" /\ calls[j] = "get_lineage_by_name"

\* the call that failed: it raised, returned nothing, or was a health check
\* that returned false
CallFailed(i) ==
    \/ IsRaise(entities[i])
    \/ i = 1 /\ ~Truthy(entities[i])
    \/ i \in 2..6 /\ entities[i] = PyNone

\* the token file is missing or empty
BadTokenFile == token_file = Absent \/ Strip(token_file.str) = ""

\* C9: main is fail-stop with no retry.  The catalog calls are made in the
\* fixed order, each at most once; a missing or empty token file ends the
\* run with exit code 1 before any call; a failed health check ends it with
\* exit code 1 before any create_or_update or add_lineage; a failure of any
\* later call ends it with exit code 1 with no further call.
C9_FailStop ==
    /\ calls = SubSeq(CallOrder, 1, Len(calls))
    /\ Len(entities) = Len(calls)
    /\ BadTokenFile => calls = <<>>
    /\ (BadTokenFile /\ pc # "read_token") => (pc = "done" /\ exit_code = 1)
    /\ \A i \in 1..Len(calls) :
          CallFailed(i) => (Len(calls) = i /\ pc = "done" /\ exit_code = 1)
    /\ exit_code = 0 => calls = CallOrder
    /\ pc = "done" <=> exit_code \in {0, 1}

\* a run that the failing creation of the schema ended: three calls before
\* it, none after
C9_Witness ==
    /\ pc = "done"
    /\ exit_code = 1
    /\ Len(calls) = 4
    /\ IsRaise(entities[4])
    /\ calls[4] = "create_or_update(schema)"

=============================================================================
